---------------------------- MODULE Spec2Model ----------------------------
(***************************************************************************)
(* np-socket: the WebSocket server of a collaborative coding environment.  *)
(*                                                                         *)
(*   src/unnamed/part_000          the protocol dispatcher (ws handlers)   *)
(*   src/ContainerSessionManager.js the client registry and the sessions   *)
(*   src/unnamed/part_001          redis.js: get / set over the store       *)
(*                                                                         *)
(* File contents, keys and names are TLA+ strings, "\n" is the newline.    *)
(* A handler that awaits store I/O is one action per resumption; a store   *)
(* command takes effect when it is issued (ioredis sends every command on  *)
(* one connection, so the store serves them in the order of issue).  An    *)
(* await of a promise that is already settled (stopSession, sendInput,     *)
(* writeFilesToDir contain no await) resumes in the same turn of the event *)
(* loop and is not a point where another handler runs.                     *)
(***************************************************************************)
EXTENDS Integers, Sequences, FiniteSets, TLC

VARIABLES
  store,          \* redis: key |-> raw string; DOMAIN store = the keys that exist
  readyState,     \* ws.readyState of each connection: "NEW", "OPEN", "CLOSED"
  environmentId,  \* ws.environmentId ("" while unset)
  clientsMap,     \* manager.clientsMap: environmentId |-> set of clients
  sessions,       \* manager.sessions: environmentId |-> index of its ptyProcess in procs
  procs,          \* every pty process spawned by startSession, in spawn order
  dir,            \* baseTmpDir/<environmentId>: fileName |-> content written
  pc,             \* where each connection's message handler is suspended
  call,           \* the suspended handler's local variables
  sent,           \* the messages the last step sent, in order
  replica         \* a receiving client's copy of the edited file (update replay)

vars == <<store, readyState, environmentId, clientsMap, sessions, procs, dir,
          pc, call, sent, replica>>

-----------------------------------------------------------------------------
(* Bounds of the model                                                     *)

MaxLines == 3     \* an edit is taken only if the file then has at most MaxLines lines
MaxItems == 2     \* most entries of a lineContent array
MaxCount == 3     \* largest count of a delete
MaxProcs == 2     \* most pty processes spawned in one behaviour

Clients == {"c1", "c2"}
Envs == {"e1"}
NL == "\n"

Max(a, b) == IF a > b THEN a ELSE b
Min(a, b) == IF a < b THEN a ELSE b

-----------------------------------------------------------------------------
(* JavaScript values and string functions                                  *)

Null == [t |-> "null", v |-> ""]
Str(s) == [t |-> "str", v |-> s]
Num(s) == [t |-> "num", v |-> s]     \* a number, kept by its literal

CharAt(s, i) == SubSeq(s, i, i)

IsSpace(ch) == ch = NL

RECURSIVE TrimLeft(_)
TrimLeft(s) ==
  IF Len(s) > 0 /\ IsSpace(CharAt(s, 1)) THEN TrimLeft(Tail(s)) ELSE s

RECURSIVE TrimRight(_)
TrimRight(s) ==
  IF Len(s) > 0 /\ IsSpace(CharAt(s, Len(s)))
  THEN TrimRight(SubSeq(s, 1, Len(s) - 1)) ELSE s

IsDigit(ch) == ch \in {"0", "1", "2", "3", "4", "5", "6", "7", "8", "9"}

\* A JSON integer literal: digits, no leading zero.
IsJsonNumber(t) ==
  /\ Len(t) > 0
  /\ \A i \in 1..Len(t) : IsDigit(CharAt(t, i))
  /\ (CharAt(t, 1) = "0" => Len(t) = 1)

\* JSON.parse over the texts of this model (letters, digits, newlines): the
\* text parses iff, its surrounding whitespace dropped, it is a number.
JsonParses(raw) == IsJsonNumber(TrimRight(TrimLeft(raw)))
JsonParse(raw) == Num(TrimRight(TrimLeft(raw)))

\* redis.js get(key): redis.get answers null for a missing key and
\* JSON.parse(null) is null; a value JSON.parse rejects is returned as read.
Get(key) ==
  IF key \notin DOMAIN store THEN Null
  ELSE IF JsonParses(store[key]) THEN JsonParse(store[key])
  ELSE Str(store[key])

\* redis.js set(key, value): a string or a number is stored by its text.
Set(st, key, value) ==
  [k \in DOMAIN st \cup {key} |-> IF k = key THEN value ELSE st[k]]

\* redis.del(key)
Del(st, key) == [k \in DOMAIN st \ {key} |-> st[k]]

Falsy(val) ==
  \/ val.t = "null"
  \/ val.t = "str" /\ val.v = ""
  \/ val.t = "num" /\ val.v = "0"

\* `${environmentId}_${fileName}`
FileKey(env, fileName) == env \o "_" \o fileName

HasNL(s) == \E i \in 1..Len(s) : CharAt(s, i) = NL
FirstNL(s) == CHOOSE i \in 1..Len(s) :
                /\ CharAt(s, i) = NL
                /\ \A j \in 1..(i - 1) : CharAt(s, j) # NL

\* String.prototype.split("\n")
RECURSIVE Split(_)
Split(s) ==
  IF ~HasNL(s) THEN <<s>>
  ELSE <<SubSeq(s, 1, FirstNL(s) - 1)>> \o Split(SubSeq(s, FirstNL(s) + 1, Len(s)))

\* Array.prototype.join("\n")
RECURSIVE Join(_)
Join(lines) ==
  IF lines = <<>> THEN ""
  ELSE IF Len(lines) = 1 THEN lines[1]
  ELSE lines[1] \o NL \o Join(Tail(lines))

\* Array.prototype.splice(start, deleteCount, ...items): start and deleteCount
\* are clamped to the array; a negative start counts from the end.
SpliceStart(lines, start) ==
  IF start < 0 THEN Max(Len(lines) + start, 0) ELSE Min(start, Len(lines))
SpliceCount(lines, start, deleteCount) ==
  Min(Max(deleteCount, 0), Len(lines) - SpliceStart(lines, start))
Splice(lines, start, deleteCount, items) ==
  SubSeq(lines, 1, SpliceStart(lines, start))
    \o items
    \o SubSeq(lines,
              SpliceStart(lines, start) + SpliceCount(lines, start, deleteCount) + 1,
              Len(lines))

\* lines[index] = value: an index in the array overwrites the element; a
\* negative index sets a property and leaves the elements alone; an index at
\* or beyond the length extends the array, the holes joining as empty text.
SetIndex(lines, index, value) ==
  IF index < 0 THEN lines
  ELSE IF index < Len(lines) THEN [lines EXCEPT ![index + 1] = value]
  ELSE lines \o [i \in 1..(index - Len(lines)) |-> ""] \o <<value>>

-----------------------------------------------------------------------------
(* The collaborative edit engine: handleWebSocketMessage, case "diffLine"   *)

EditEnv == "e1"
EditFile == "main.py"
LineValues == {"a", "0", "1"}
Ops == {"insert", "delete", "replace"}

\* One lineUpdated payload; a delete carries lineContent null, written "".
Update(fileName, op, lineNumber, lineContent) ==
  [fileName |-> fileName, op |-> op, lineNumber |-> lineNumber,
   lineContent |-> lineContent]

\* A variant of InsertLines: the splice overwrites as many lines as it inserts.
InsertLinesOverwriting(lines, lineNumber, items) ==
  Splice(lines, lineNumber, Len(items), items)

\* op === "insert"
InsertLines(lines, lineNumber, items) == Splice(lines, lineNumber, 0, items)
InsertUpdates(fileName, lineNumber, items) ==
  [i \in 1..Len(items) |-> Update(fileName, "insert", lineNumber + (i - 1), items[i])]

\* A variant of DeleteUpdates: the reported index advances with each line.
DeleteUpdatesShifting(fileName, lineNumber, count) ==
  [i \in 1..(IF count > 0 THEN count ELSE 1) |->
     Update(fileName, "delete", lineNumber + (i - 1), "")]

\* op === "delete"
DeleteCount(count) == IF count > 0 THEN count ELSE 1
DeleteLines(lines, lineNumber, count) ==
  Splice(lines, lineNumber, DeleteCount(count), <<>>)
DeleteUpdates(fileName, lineNumber, count) ==
  [i \in 1..DeleteCount(count) |-> Update(fileName, "delete", lineNumber, "")]

\* A variant of ReplaceAt: the range test admits the index one past the end.
ReplaceAtInclusive(acc, fileName, index, value) ==
  IF index <= Len(acc.lines)
  THEN [lines |-> SetIndex(acc.lines, index, value),
        updates |-> Append(acc.updates, Update(fileName, "replace", index, value))]
  ELSE [lines |-> Splice(acc.lines, index, 0, <<value>>),
        updates |-> Append(acc.updates, Update(fileName, "insert", index, value))]

\* op === "replace": one pass of the loop, on acc = [lines, updates]
ReplaceAt(acc, fileName, index, value) ==
  IF index < Len(acc.lines)
  THEN [lines |-> SetIndex(acc.lines, index, value),
        updates |-> Append(acc.updates, Update(fileName, "replace", index, value))]
  ELSE [lines |-> Splice(acc.lines, index, 0, <<value>>),
        updates |-> Append(acc.updates, Update(fileName, "insert", index, value))]

RECURSIVE ReplaceFrom(_, _, _, _, _)
ReplaceFrom(acc, fileName, lineNumber, items, i) ==
  IF i >= Len(items) THEN acc
  ELSE ReplaceFrom(ReplaceAt(acc, fileName, lineNumber + i, items[i + 1]),
                   fileName, lineNumber, items, i + 1)

\* The line sequence and the updates an operation produces from `lines`.
ApplyEdit(m, lines) ==
  CASE m.op = "insert" ->
         [lines |-> InsertLines(lines, m.lineNumber, m.lineContent),
          updates |-> InsertUpdates(m.fileName, m.lineNumber, m.lineContent)]
    [] m.op = "delete" ->
         [lines |-> DeleteLines(lines, m.lineNumber, m.count),
          updates |-> DeleteUpdates(m.fileName, m.lineNumber, m.count)]
    [] m.op = "replace" ->
         ReplaceFrom([lines |-> lines, updates |-> <<>>],
                     m.fileName, m.lineNumber, m.lineContent, 0)

\* let fileContent = await get(fileKey) || ""; let lines = fileContent.split("\n")
\* (defined where the value read has a split method)
FileContentOf(got) == IF Falsy(got) THEN "" ELSE got.v
LinesOf(got) == Split(FileContentOf(got))
SplitThrows(got) == ~Falsy(got) /\ got.t = "num"

DiffLineValid(m) ==
  /\ m.environmentId # ""
  /\ m.fileName # ""
  /\ m.lineNumberType = "number"
  /\ m.op \in Ops

\* How a receiving client applies one lineUpdated event to its lines.
ApplyUpdate(lines, u) ==
  CASE u.op = "insert" -> Splice(lines, u.lineNumber, 0, <<u.lineContent>>)
    [] u.op = "delete" -> Splice(lines, u.lineNumber, 1, <<>>)
    [] u.op = "replace" -> SetIndex(lines, u.lineNumber, u.lineContent)

RECURSIVE Replay(_, _)
Replay(content, updates) ==
  IF updates = <<>> THEN content
  ELSE Replay(Join(ApplyUpdate(Split(content), Head(updates))), Tail(updates))

-----------------------------------------------------------------------------
(* Sending                                                                  *)

\* wss.clients.forEach: every other open client bound to env
Others(c, env) ==
  {d \in Clients : d # c /\ readyState[d] = "OPEN" /\ environmentId[d] = env}

IdleCall == [event |-> "none"]

\* A message and the set of clients it is sent to.  The ws.on("message")
\* catch reports whatever the handler throws to the sender alone.
ErrorMsg(c, details) == [to |-> {c}, event |-> "error", details |-> details]

LineUpdated(to, u) == [to |-> to, event |-> "lineUpdated", data |-> u]

-----------------------------------------------------------------------------
(* case "diffLine"                                                          *)

DiffLineError == "environmentId, fileName, op, and lineNumber are required"
SplitError == "fileContent.split is not a function"

\* The content the store holds for a file, "" when it holds none.
Persisted(env, fileName) ==
  IF FileKey(env, fileName) \in DOMAIN store THEN store[FileKey(env, fileName)] ELSE ""

\* The bound of the model: a file does not outgrow MaxLines, and the edited
\* file is edited no further once the replica has parted from it.
WithinBounds(m, res) ==
  /\ Len(res.lines) <= MaxLines
  /\ m.environmentId = EditEnv /\ m.fileName = EditFile
       => replica = Persisted(EditEnv, EditFile)

\* The synchronous part: validation, then get(fileKey) is issued.
DiffLine(c, m) ==
  /\ readyState[c] = "OPEN"
  /\ pc[c] = "idle"
  /\ IF ~DiffLineValid(m)
     THEN /\ sent' = <<ErrorMsg(c, DiffLineError)>>
          /\ UNCHANGED <<pc, call>>
     ELSE LET got == Get(FileKey(m.environmentId, m.fileName))
          IN /\ SplitThrows(got) \/ WithinBounds(m, ApplyEdit(m, LinesOf(got)))
             /\ pc' = [pc EXCEPT ![c] = "diffLine_get"]
             /\ call' = [call EXCEPT ![c] = [event |-> "diffLine", m |-> m, got |-> got]]
             /\ sent' = <<>>
  /\ UNCHANGED <<store, readyState, environmentId, clientsMap, sessions, procs,
                 dir, replica>>

\* get has answered: the lines are edited and set(fileKey, newContent) is issued.
DiffLineGot(c) ==
  /\ pc[c] = "diffLine_get"
  /\ IF SplitThrows(call[c].got)
     THEN /\ sent' = <<ErrorMsg(c, SplitError)>>
          /\ pc' = [pc EXCEPT ![c] = "idle"]
          /\ call' = [call EXCEPT ![c] = IdleCall]
          /\ UNCHANGED store
     ELSE LET m == call[c].m
              lines == LinesOf(call[c].got)
              res == ApplyEdit(m, lines)
          IN /\ store' = Set(store, FileKey(m.environmentId, m.fileName), Join(res.lines))
             /\ pc' = [pc EXCEPT ![c] = "diffLine_set"]
             /\ call' = [call EXCEPT ![c] =
                           [event |-> "diffLine", m |-> m, lines |-> lines,
                            newLines |-> res.lines, updates |-> res.updates]]
             /\ sent' = <<>>
  /\ UNCHANGED <<readyState, environmentId, clientsMap, sessions, procs, dir, replica>>

\* set has answered: every update goes to the other clients of the environment.
DiffLineSet(c) ==
  /\ pc[c] = "diffLine_set"
  /\ LET m == call[c].m
         updates == call[c].updates
     IN /\ sent' = [i \in 1..Len(updates) |->
                      LineUpdated(Others(c, m.environmentId), updates[i])]
        /\ replica' = IF m.environmentId = EditEnv /\ m.fileName = EditFile
                      THEN Replay(replica, updates) ELSE replica
  /\ pc' = [pc EXCEPT ![c] = "idle"]
  /\ call' = [call EXCEPT ![c] = IdleCall]
  /\ UNCHANGED <<store, readyState, environmentId, clientsMap, sessions, procs, dir>>

-----------------------------------------------------------------------------
(* SpecEdit: one client edits one file of an environment that a second      *)
(* client watches; the operations are taken one at a time.                  *)

EmptyMap == [k \in {} |-> ""]

LineNumbers == 0..(MaxLines + 1)
LineContents == UNION {[1..n -> LineValues] : n \in 0..MaxItems}
EditMsgs ==
  [environmentId : {EditEnv}, fileName : {EditFile}, lineNumberType : {"number"},
   op : {"insert", "replace"}, lineNumber : LineNumbers,
   lineContent : LineContents, count : {0}]
  \cup
  [environmentId : {EditEnv}, fileName : {EditFile}, lineNumberType : {"number"},
   op : {"delete"}, lineNumber : LineNumbers,
   lineContent : {<<>>}, count : 0..MaxCount]

InitEdit ==
  /\ store = EmptyMap
  /\ readyState = [c \in Clients |-> "OPEN"]
  /\ environmentId = [c \in Clients |-> EditEnv]
  /\ clientsMap = [e \in {EditEnv} |-> Clients]
  /\ sessions = EmptyMap
  /\ procs = <<>>
  /\ dir = EmptyMap
  /\ pc = [c \in Clients |-> "idle"]
  /\ call = [c \in Clients |-> IdleCall]
  /\ sent = <<>>
  /\ replica = ""

NextEdit ==
  \/ \E m \in EditMsgs : DiffLine("c1", m)
  \/ DiffLineGot("c1")
  \/ DiffLineSet("c1")

SpecEdit == InitEdit /\ [][NextEdit]_vars

-----------------------------------------------------------------------------
(* Claims on the edit engine (SpecEdit)                                     *)

\* The handler of c1 between its set and its broadcast: its locals hold the
\* lines it read, the lines it stored and the updates it is about to send.
Edited(op) == pc["c1"] = "diffLine_set" /\ call["c1"].m.op = op

\* C5 (as claimed): once every diffLine operation has completed, replaying the
\* emitted lineUpdated events, in order, on a copy of the file's original
\* content gives exactly the content the store holds for the file.
C5_UpdateStreamFidelity ==
  pc["c1"] = "idle" => replica = Persisted(EditEnv, EditFile)

\* C6 (as claimed): a delete removes count lines (1 when count is absent or
\* not positive) and emits one delete update per line it removed, each at
\* lineNumber.
C6_DeleteOnePerRemoved ==
  Edited("delete") =>
    LET lc == call["c1"]
    IN /\ Len(lc.newLines) = Len(lc.lines) - Len(lc.updates)
       /\ \A i \in 1..Len(lc.updates) :
            lc.updates[i] = Update(EditFile, "delete", lc.m.lineNumber, "")

\* C6 (amended): a delete with count d (1 when count is absent or not
\* positive) at lineNumber n >= 0 removes the lines n .. n+d-1 that exist,
\* that is min(d, max(0, length - n)) lines, keeps the others in order, and
\* emits exactly d delete updates, each at lineNumber n, also when fewer than
\* d lines exist from n onward.
C6_DeleteEmitsCount ==
  Edited("delete") =>
    LET lc == call["c1"]
        n == lc.m.lineNumber
        d == IF lc.m.count >= 1 THEN lc.m.count ELSE 1
        len == Len(lc.lines)
        r == IF n >= len THEN 0 ELSE IF n + d > len THEN len - n ELSE d
    IN /\ Len(lc.newLines) = len - r
       /\ \A i \in 1..(len - r) :
            lc.newLines[i] = IF i <= n THEN lc.lines[i] ELSE lc.lines[i + r]
       /\ Len(lc.updates) = d
       /\ \A i \in 1..d : lc.updates[i] = Update(EditFile, "delete", n, "")

\* C6 witness: a delete of more lines than exist from lineNumber onward.
C6_Witness ==
  /\ Edited("delete")
  /\ call["c1"].m.count = 3
  /\ Len(call["c1"].lines) = 2
  /\ call["c1"].m.lineNumber = 1
  /\ Len(call["c1"].newLines) = 1

\* C7: in a replace at lineNumber n of the values v_0 .. v_(k-1) on lines of
\* length len, every value with n + i < len overwrites line n + i in place and
\* is reported as a replace update at n + i; every value with n + i >= len is
\* added as a new line at the end, in order, and is reported as an insert
\* update at n + i; nothing else changes.
C7_ReplaceOrInsert ==
  Edited("replace") =>
    LET lc == call["c1"]
        n == lc.m.lineNumber
        items == lc.m.lineContent
        len == Len(lc.lines)
        inside == {i \in 0..(Len(items) - 1) : n + i < len}
        beyond == {i \in 0..(Len(items) - 1) : n + i >= len}
        first == IF n >= len THEN 0 ELSE len - n   \* the first offset beyond
    IN /\ Len(lc.updates) = Len(items)
       /\ \A i \in inside :
            /\ lc.newLines[n + i + 1] = items[i + 1]
            /\ lc.updates[i + 1] = Update(EditFile, "replace", n + i, items[i + 1])
       /\ \A i \in beyond :
            /\ lc.newLines[len + (i - first) + 1] = items[i + 1]
            /\ lc.updates[i + 1] = Update(EditFile, "insert", n + i, items[i + 1])
       /\ Len(lc.newLines) = len + Cardinality(beyond)
       /\ \A j \in 1..len :
            (j - 1 - n) \notin inside => lc.newLines[j] = lc.lines[j]

\* C7 witness: a replace whose first value overwrites the last line and whose
\* second value lies beyond the end.
C7_Witness ==
  /\ Edited("replace")
  /\ Len(call["c1"].lines) = 2
  /\ call["c1"].m.lineNumber = 1
  /\ Len(call["c1"].updates) = 2
  /\ call["c1"].updates[1].op = "replace"
  /\ call["c1"].updates[2].op = "insert"

\* C8 (as claimed): an insert of k lines at lineNumber n grows the sequence by
\* k, and the i-th inserted line sits at position n + i of the result, the
\* index its update reports, for every n.
C8_InsertAtReportedIndex ==
  Edited("insert") =>
    LET lc == call["c1"]
        n == lc.m.lineNumber
        items == lc.m.lineContent
    IN /\ Len(lc.newLines) = Len(lc.lines) + Len(items)
       /\ \A i \in 0..(Len(items) - 1) :
            /\ lc.updates[i + 1] = Update(EditFile, "insert", n + i, items[i + 1])
            /\ n + i + 1 <= Len(lc.newLines)
            /\ lc.newLines[n + i + 1] = items[i + 1]

\* C8 (amended): an insert of k lines at lineNumber n >= 0 removes no line and
\* keeps the existing lines in order around the inserted block; the i-th
\* inserted line sits at position min(n, length) + i and its update reports
\* index n + i, which is that position exactly when n is at most the length.
C8_InsertAtClampedIndex ==
  Edited("insert") =>
    LET lc == call["c1"]
        n == lc.m.lineNumber
        items == lc.m.lineContent
        len == Len(lc.lines)
        at == IF n > len THEN len ELSE n
    IN /\ Len(lc.updates) = Len(items)
       /\ Len(lc.newLines) = len + Len(items)
       /\ \A j \in 1..len :
            lc.newLines[IF j <= at THEN j ELSE j + Len(items)] = lc.lines[j]
       /\ \A i \in 0..(Len(items) - 1) :
            /\ lc.newLines[at + i + 1] = items[i + 1]
            /\ lc.updates[i + 1] = Update(EditFile, "insert", n + i, items[i + 1])

\* C8 witness: an insert at a lineNumber greater than the number of lines.
C8_Witness ==
  /\ Edited("insert")
  /\ Len(call["c1"].lines) = 1
  /\ call["c1"].m.lineNumber = 3
  /\ Len(call["c1"].m.lineContent) = 2
  /\ Len(call["c1"].newLines) = 3

-----------------------------------------------------------------------------
(* ContainerSessionManager: the client registry                             *)

\* A registerClient that starts a new set at every call.
RegisterClientFresh(cm, env, c) ==
  [e \in DOMAIN cm \cup {env} |-> IF e = env THEN {c} ELSE cm[e]]

\* registerClient(environmentId, client)
RegisterClient(cm, env, c) ==
  [e \in DOMAIN cm \cup {env} |->
     IF e = env THEN (IF env \in DOMAIN cm THEN cm[env] ELSE {}) \cup {c} ELSE cm[e]]

\* A broadcast that does not look at the state of the connection.
ReceiversAll(cm, env) ==
  IF env \in DOMAIN cm THEN cm[env] ELSE {}

\* The clients broadcastToEnvironment(environmentId, message) sends to.
Receivers(cm, env) ==
  IF env \in DOMAIN cm THEN {d \in cm[env] : readyState[d] = "OPEN"} ELSE {}

\* ws.send(message) by a handler: nothing is sent on a connection that closed.
ToSender(c) == IF readyState[c] = "OPEN" THEN {c} ELSE {}

-----------------------------------------------------------------------------
(* ContainerSessionManager: stopSession                                     *)

\* What the two kill requests of stopSession may do: both are issued; or
\* pty.spawn("docker", ["kill", name]) throws; or ptyProcess.kill() throws.
StopOutcomes == {"ok", "killByNameThrows", "killThrows"}

\* A pty process is "running" from its spawn; "killed" once stopSession has
\* issued both kills; "killedByName" once the by-name kill was issued and
\* ptyProcess.kill() threw; "exited" once its exit event has come.
\* The live pty process of a session: spawned, sent no kill, not exited.
Live(p) == p.status = "running"

\* A stopSession whose catch block also returns true.
StopSessionReportsSuccess(ss, ps, env, outcome) ==
  IF env \notin DOMAIN ss
  THEN [sessions |-> ss, procs |-> ps, success |-> FALSE, found |-> FALSE]
  ELSE [sessions |-> [e \in DOMAIN ss \ {env} |-> ss[e]],
        procs |->
          CASE outcome = "ok" ->
                 [ps EXCEPT ![ss[env]].status = "killed"]
            [] outcome = "killByNameThrows" -> ps
            [] outcome = "killThrows" -> [ps EXCEPT ![ss[env]].status = "killedByName"],
        success |-> TRUE,
        found |-> TRUE]

\* stopSession(environmentId): the sessions, the processes and the result.
StopSession(ss, ps, env, outcome) ==
  IF env \notin DOMAIN ss
  THEN [sessions |-> ss, procs |-> ps, success |-> FALSE, found |-> FALSE]
  ELSE [sessions |-> [e \in DOMAIN ss \ {env} |-> ss[e]],
        procs |->
          CASE outcome = "ok" ->
                 [ps EXCEPT ![ss[env]].status = "killed"]
            [] outcome = "killByNameThrows" -> ps
            [] outcome = "killThrows" -> [ps EXCEPT ![ss[env]].status = "killedByName"],
        success |-> outcome = "ok",
        found |-> TRUE]

\* An outcome is drawn only where stopSession finds a session to stop.
StopsSession(env) == env \in DOMAIN sessions

\* unregisterClient(environmentId, client)
UnregisterClient(cm, ss, ps, env, c, outcome) ==
  IF env \notin DOMAIN cm
  THEN [clientsMap |-> cm, sessions |-> ss, procs |-> ps]
  ELSE IF cm[env] \ {c} # {}
  THEN [clientsMap |-> [cm EXCEPT ![env] = cm[env] \ {c}], sessions |-> ss, procs |-> ps]
  ELSE [clientsMap |-> [e \in DOMAIN cm \ {env} |-> cm[e]],
        sessions |-> StopSession(ss, ps, env, outcome).sessions,
        procs |-> StopSession(ss, ps, env, outcome).procs]

-----------------------------------------------------------------------------
(* The connection and the handlers that do not suspend                      *)

\* wss.on("connection"), the session token verified
Connect(c) ==
  /\ readyState[c] = "NEW"
  /\ readyState' = [readyState EXCEPT ![c] = "OPEN"]
  /\ sent' = <<[to |-> {c}, event |-> "connected"]>>
  /\ UNCHANGED <<store, environmentId, clientsMap, sessions, procs, dir, pc, call, replica>>

\* ws.on("close")
Close(c, outcome) ==
  /\ readyState[c] = "OPEN"
  /\ StopsSession(environmentId[c]) \/ outcome = "ok"
  /\ readyState' = [readyState EXCEPT ![c] = "CLOSED"]
  /\ IF environmentId[c] # ""
     THEN LET u == UnregisterClient(clientsMap, sessions, procs, environmentId[c], c, outcome)
          IN /\ clientsMap' = u.clientsMap
             /\ sessions' = u.sessions
             /\ procs' = u.procs
             /\ sent' = <<[to |-> Others(c, environmentId[c]), event |-> "deleteCursor",
                           sessionId |-> c]>>
     ELSE /\ sent' = <<>>
          /\ UNCHANGED <<clientsMap, sessions, procs>>
  /\ UNCHANGED <<store, environmentId, dir, pc, call, replica>>

Receives(c) == readyState[c] = "OPEN" /\ pc[c] = "idle"

\* A dispatcher that reports an unknown event on every open connection.
UnknownEventToAll(c) ==
  /\ Receives(c)
  /\ sent' = <<[to |-> {d \in Clients : readyState[d] = "OPEN"}, event |-> "error",
                details |-> "Unknown event"]>>
  /\ UNCHANGED <<store, readyState, environmentId, clientsMap, sessions, procs, dir,
                 pc, call, replica>>

\* default: throw new Error(`Unknown event: ${data.event}`)
UnknownEvent(c) ==
  /\ Receives(c)
  /\ sent' = <<ErrorMsg(c, "Unknown event")>>
  /\ UNCHANGED <<store, readyState, environmentId, clientsMap, sessions, procs, dir,
                 pc, call, replica>>

\* case "cursorMove": the binding is set, the client is not registered
CursorMove(c, env) ==
  /\ Receives(c)
  /\ LET envId == IF env # "" THEN env ELSE environmentId[c]
     IN IF envId = ""
        THEN /\ sent' = <<ErrorMsg(c, "environmentId is required for cursorMove")>>
             /\ UNCHANGED environmentId
        ELSE /\ environmentId' = [environmentId EXCEPT ![c] = envId]
             /\ sent' = <<[to |-> Others(c, envId), event |-> "movedCursor", id |-> c]>>
  /\ UNCHANGED <<store, readyState, clientsMap, sessions, procs, dir, pc, call, replica>>

\* case "inputChange"
InputChange(c) ==
  /\ Receives(c)
  /\ sent' = <<[to |-> Others(c, environmentId[c]), event |-> "inputChanged"]>>
  /\ UNCHANGED <<store, readyState, environmentId, clientsMap, sessions, procs, dir,
                 pc, call, replica>>

\* case "stop"
Stop(c, outcome) ==
  /\ Receives(c)
  /\ StopsSession(environmentId[c]) \/ outcome = "ok"
  /\ IF environmentId[c] = ""
     THEN /\ sent' = <<ErrorMsg(c, "No active environment")>>
          /\ UNCHANGED <<sessions, procs>>
     ELSE LET r == StopSession(sessions, procs, environmentId[c], outcome)
          IN /\ sessions' = r.sessions
             /\ procs' = r.procs
             /\ sent' = <<[to |-> Receivers(clientsMap, environmentId[c]),
                           event |-> "stopped", environmentId |-> environmentId[c],
                           success |-> r.success, reason |-> ""]>>
  /\ UNCHANGED <<store, readyState, environmentId, clientsMap, dir, pc, call, replica>>

\* input.endsWith("\n")
EndsWithNL(s) == Len(s) > 0 /\ CharAt(s, Len(s)) = NL

\* An input that is given a newline whatever its end.
WithNewlineAlways(s) == s \o NL

\* input.endsWith("\n") ? input : input + "\n"
WithNewline(s) == IF EndsWithNL(s) THEN s ELSE s \o NL

\* session.ptyProcess.write(text) on the process p: no client receives it.
PtyWrite(p, text) == [to |-> {}, event |-> "ptyWrite", proc |-> p, text |-> text]

\* case "input" and sendInput; m.inputIsString is typeof data.data.input === "string",
\* writeThrows is whether session.ptyProcess.write throws
Input(c, m, writeThrows) ==
  /\ Receives(c)
  /\ writeThrows => m.inputIsString /\ environmentId[c] \in DOMAIN sessions
  /\ sent' =
       IF ~m.inputIsString THEN <<ErrorMsg(c, "Input data is required")>>
       ELSE IF environmentId[c] = "" THEN <<ErrorMsg(c, "No active environment")>>
       ELSE IF environmentId[c] \notin DOMAIN sessions \/ writeThrows
       THEN <<ErrorMsg(c, "Failed to send input")>>
       ELSE <<PtyWrite(sessions[environmentId[c]], WithNewline(m.input))>>
  /\ UNCHANGED <<store, readyState, environmentId, clientsMap, sessions, procs, dir,
                 pc, call, replica>>

-----------------------------------------------------------------------------
(* case "getFiles" and getAllFilesForEnvironment                            *)

HasPrefix(k, prefix) == Len(k) >= Len(prefix) /\ SubSeq(k, 1, Len(prefix)) = prefix

\* getAllFilesForEnvironment: the keys matching `${environmentId}_*`, each
\* named by key.substring(environmentId.length + 1) and read with get
AllFileNames(env) ==
  {SubSeq(k, Len(env) + 2, Len(k)) : k \in {x \in DOMAIN store : HasPrefix(x, env \o "_")}}
GetAllFilesForEnvironment(env) ==
  [name \in AllFileNames(env) |-> Get(FileKey(env, name))]

\* A getFiles that binds and registers the sender before it validates.
GetFilesBindFirst(c, env) ==
  /\ Receives(c)
  /\ environmentId' = [environmentId EXCEPT ![c] = env]
  /\ clientsMap' = RegisterClient(clientsMap, env, c)
  /\ IF env = ""
     THEN /\ sent' = <<ErrorMsg(c, "environmentId is required")>>
          /\ UNCHANGED <<pc, call>>
     ELSE /\ pc' = [pc EXCEPT ![c] = "getFiles_scan"]
          /\ call' = [call EXCEPT ![c] = [event |-> "getFiles", environmentId |-> env]]
          /\ sent' = <<>>
  /\ UNCHANGED <<store, readyState, sessions, procs, dir, replica>>

GetFiles(c, env) ==
  /\ Receives(c)
  /\ IF env = ""
     THEN /\ sent' = <<ErrorMsg(c, "environmentId is required")>>
          /\ UNCHANGED <<environmentId, clientsMap, pc, call>>
     ELSE /\ environmentId' = [environmentId EXCEPT ![c] = env]
          /\ clientsMap' = RegisterClient(clientsMap, env, c)
          /\ pc' = [pc EXCEPT ![c] = "getFiles_scan"]
          /\ call' = [call EXCEPT ![c] = [event |-> "getFiles", environmentId |-> env]]
          /\ sent' = <<>>
  /\ UNCHANGED <<store, readyState, sessions, procs, dir, replica>>

\* the scan and the reads have answered
GetFilesDone(c) ==
  /\ pc[c] = "getFiles_scan"
  /\ sent' = <<[to |-> ToSender(c), event |-> "files",
                files |-> GetAllFilesForEnvironment(call[c].environmentId)]>>
  /\ pc' = [pc EXCEPT ![c] = "idle"]
  /\ call' = [call EXCEPT ![c] = IdleCall]
  /\ UNCHANGED <<store, readyState, environmentId, clientsMap, sessions, procs, dir, replica>>

-----------------------------------------------------------------------------
(* case "run" and startSession                                              *)

DefaultBody == "import time\nwhile True:\n print(\"hello world\")\n time.sleep(1)"

\* buildFileObject: the content kept for one requested file
BuildContent(fileName, got) ==
  IF Falsy(got) THEN (IF fileName = "main.py" THEN DefaultBody ELSE "") ELSE got.v

\* buildFileObject: the object { fileName: content }, its entries in the order
\* of fileNames (which the model draws without repetitions)
BuildFiles(fileNames, got) ==
  [i \in 1..Len(fileNames) |-> <<fileNames[i], BuildContent(fileNames[i], got[fileNames[i]])>>]

\* sha256 of JSON.stringify(files): equal exactly for equal texts, and the
\* text is given by the entries in their order
Sha256(files) == [sha256 |-> files]

\* writeFilesToDir: every entry of files is written into the directory
WriteFilesToDir(d, env, files) ==
  LET old == IF env \in DOMAIN d THEN d[env] ELSE EmptyMap
      names == {files[i][1] : i \in 1..Len(files)}
      content(n) == files[CHOOSE i \in 1..Len(files) : files[i][1] = n][2]
      new == [n \in DOMAIN old \cup names |-> IF n \in names THEN content(n) ELSE old[n]]
  IN [e \in DOMAIN d \cup {env} |-> IF e = env THEN new ELSE d[e]]

\* fileNames.includes("main.py") ? "main.py" : fileNames[0]
MainFile(fileNames) ==
  IF \E i \in 1..Len(fileNames) : fileNames[i] = "main.py" THEN "main.py" ELSE fileNames[1]

RunError == "fileNames (array) and environmentId are required"

\* The synchronous part of the handler and of startSession: an existing
\* session is stopped and the restart announced, then the reads are issued.
Run(c, m, outcome) ==
  /\ Receives(c)
  /\ (m.fileNamesIsArray /\ StopsSession(m.environmentId)) \/ outcome = "ok"
  /\ IF ~m.fileNamesIsArray \/ m.environmentId = ""
     THEN /\ sent' = <<ErrorMsg(c, RunError)>>
          /\ UNCHANGED <<environmentId, clientsMap, sessions, procs, pc, call>>
     ELSE LET env == m.environmentId
              cm == IF environmentId[c] # env
                    THEN RegisterClient(clientsMap, env, c) ELSE clientsMap
              r == StopSession(sessions, procs, env, outcome)
              runRan == [to |-> Others(c, environmentId[c]), event |-> "runRan"]
              stopped == [to |-> Receivers(cm, env), event |-> "stopped",
                          environmentId |-> env, success |-> TRUE, reason |-> "restarted"]
          IN /\ environmentId' = [environmentId EXCEPT ![c] = env]
             /\ clientsMap' = cm
             /\ sessions' = r.sessions
             /\ procs' = r.procs
             /\ sent' = IF r.found THEN <<runRan, stopped>> ELSE <<runRan>>
             /\ pc' = [pc EXCEPT ![c] = "run_build"]
             /\ call' = [call EXCEPT ![c] =
                  [event |-> "run", m |-> m, restarted |-> r.found,
                   got |-> [f \in {m.fileNames[i] : i \in 1..Len(m.fileNames)} |->
                              Get(FileKey(env, f))]]]
  /\ UNCHANGED <<store, readyState, dir, replica>>

\* What the rest of startSession may meet: nothing; a read that rejects; a
\* write into the directory that throws; pty.spawn throwing.
StartOutcomes == {"ok", "getThrows", "writeThrows", "spawnThrows"}

\* A message of broadcastToEnvironment(environmentId, message): env is the
\* environmentId argument of the call, which is no part of the payload.
Output(env, to, text) == [to |-> to, env |-> env, event |-> "output", output |-> text]
Exit(env, to, code) == [to |-> to, env |-> env, event |-> "exit", exitCode |-> code]
\* A runStatus that reports success whatever startSession returned.
RunStatusAlwaysTrue(c, success) ==
  [to |-> ToSender(c), event |-> "runStatus", success |-> TRUE]
RunStatus(c, success) == [to |-> ToSender(c), event |-> "runStatus", success |-> success]

\* The files startSession writes into the working directory.
FilesToWrite(files, hash, clientFiles) == files

\* The reads have answered: the rest of startSession, then runStatus.
RunResume(c, outcome) ==
  /\ pc[c] = "run_build"
  /\ LET m == call[c].m
         env == m.environmentId
         files == BuildFiles(m.fileNames, call[c].got)
         to == Receivers(clientsMap, env)
         failed == <<Output(env, to, "Error starting session"), Exit(env, to, 1),
                     RunStatus(c, FALSE)>>
     IN CASE outcome \in {"getThrows", "writeThrows"} ->
               /\ sent' = failed
               /\ UNCHANGED <<dir, procs, sessions>>
          [] outcome = "spawnThrows" ->
               /\ dir' = WriteFilesToDir(dir, env, FilesToWrite(files, m.hash, m.files))
               /\ sent' = failed
               /\ UNCHANGED <<procs, sessions>>
          [] outcome = "ok" ->
               /\ Len(procs) < MaxProcs
               /\ dir' = WriteFilesToDir(dir, env, FilesToWrite(files, m.hash, m.files))
               /\ procs' = Append(procs, [env |-> env, mainFile |-> MainFile(m.fileNames),
                                          status |-> "running"])
               /\ sessions' = [e \in DOMAIN sessions \cup {env} |->
                                 IF e = env THEN Len(procs) + 1 ELSE sessions[e]]
               /\ sent' = <<RunStatus(c, TRUE)>>
  /\ pc' = [pc EXCEPT ![c] = "idle"]
  /\ call' = [call EXCEPT ![c] = IdleCall]
  /\ UNCHANGED <<store, readyState, environmentId, clientsMap, replica>>

\* ptyProcess.on("data")
ProcOutput(p) ==
  /\ p \in 1..Len(procs)
  /\ procs[p].status # "exited"
  /\ sent' = <<Output(procs[p].env, Receivers(clientsMap, procs[p].env), "data")>>
  /\ UNCHANGED <<store, readyState, environmentId, clientsMap, sessions, procs, dir,
                 pc, call, replica>>

\* ptyProcess.on("exit"): the process ends by itself or after a kill
ExitCodes == {0, 1}

\* An exit handler that leaves the Session record in place.
ProcExitKeepsRecord(p, code) ==
  /\ p \in 1..Len(procs)
  /\ procs[p].status # "exited"
  /\ procs' = [procs EXCEPT ![p].status = "exited"]
  /\ sent' = <<Exit(procs[p].env, Receivers(clientsMap, procs[p].env), code)>>
  /\ UNCHANGED <<store, readyState, environmentId, clientsMap, sessions, dir, pc, call,
                 replica>>

ProcExit(p, code) ==
  /\ p \in 1..Len(procs)
  /\ procs[p].status # "exited"
  /\ procs' = [procs EXCEPT ![p].status = "exited"]
  /\ sent' = <<Exit(procs[p].env, Receivers(clientsMap, procs[p].env), code)>>
  /\ sessions' = [e \in DOMAIN sessions \ {procs[p].env} |-> sessions[e]]
  /\ UNCHANGED <<store, readyState, environmentId, clientsMap, dir, pc, call, replica>>

-----------------------------------------------------------------------------
(* case "renameFile", "deleteFile", "duplicateFile"                         *)

FileStatus(c, event, data) == [to |-> ToSender(c), event |-> event, data |-> data]

\* The status is sent, then getAllFilesForEnvironment issues its scan.
StatusThenScan(c, event, data) ==
  /\ sent' = <<FileStatus(c, event, data)>>
  /\ pc' = [pc EXCEPT ![c] = "files_scan"]
  /\ call' = [call EXCEPT ![c] = [event |-> call[c].event, m |-> call[c].m,
                                  environmentId |-> call[c].m.environmentId]]
  /\ UNCHANGED <<store, readyState, environmentId, clientsMap, sessions, procs, dir, replica>>

\* The scan and the reads have answered: the listing goes to the environment.
FilesScanned(c) ==
  /\ pc[c] = "files_scan"
  /\ sent' = <<[to |-> Receivers(clientsMap, call[c].environmentId),
                env |-> call[c].environmentId, event |-> "files",
                files |-> GetAllFilesForEnvironment(call[c].environmentId)]>>
  /\ pc' = [pc EXCEPT ![c] = "idle"]
  /\ call' = [call EXCEPT ![c] = IdleCall]
  /\ UNCHANGED <<store, readyState, environmentId, clientsMap, sessions, procs, dir, replica>>

\* A handler that issues a store command and suspends, or throws.
Suspend(c, state, locals) ==
  /\ pc' = [pc EXCEPT ![c] = state]
  /\ call' = [call EXCEPT ![c] = locals]
  /\ sent' = <<>>
Throw(c, details) ==
  /\ sent' = <<ErrorMsg(c, details)>>
  /\ pc' = [pc EXCEPT ![c] = "idle"]
  /\ call' = [call EXCEPT ![c] = IdleCall]

RenameError == "environmentId, oldName, and newName are required"
FileError == "environmentId and fileName are required"
NotFound == "File does not exist"

\* case "renameFile": validation, then renameFile issues get(oldKey)
RenameFile(c, m) ==
  /\ Receives(c)
  /\ IF m.environmentId = "" \/ m.oldName = "" \/ m.newName = ""
     THEN Throw(c, RenameError)
     ELSE Suspend(c, "rename_get",
                  [event |-> "renameFile", m |-> m,
                   got |-> Get(FileKey(m.environmentId, m.oldName))])
  /\ UNCHANGED <<store, readyState, environmentId, clientsMap, sessions, procs, dir, replica>>

\* A renameFile that issues set(newKey, content) before it looks at content;
\* set stores null as the text "null".
RenameGotSetFirst(c) ==
  /\ pc[c] = "rename_get"
  /\ store' = Set(store, FileKey(call[c].m.environmentId, call[c].m.newName),
                  IF call[c].got = Null THEN "null" ELSE call[c].got.v)
  /\ IF call[c].got = Null
     THEN Throw(c, NotFound)
     ELSE Suspend(c, "rename_set", call[c])
  /\ UNCHANGED <<readyState, environmentId, clientsMap, sessions, procs, dir, replica>>

\* get has answered: a missing file throws, else set(newKey, content) is issued
RenameGot(c) ==
  /\ pc[c] = "rename_get"
  /\ IF call[c].got = Null
     THEN Throw(c, NotFound) /\ UNCHANGED store
     ELSE /\ store' = Set(store, FileKey(call[c].m.environmentId, call[c].m.newName),
                          call[c].got.v)
          /\ Suspend(c, "rename_set", call[c])
  /\ UNCHANGED <<readyState, environmentId, clientsMap, sessions, procs, dir, replica>>

\* set has answered: redis.del(oldKey) is issued
RenameSet(c) ==
  /\ pc[c] = "rename_set"
  /\ store' = Del(store, FileKey(call[c].m.environmentId, call[c].m.oldName))
  /\ Suspend(c, "rename_del", call[c])
  /\ UNCHANGED <<readyState, environmentId, clientsMap, sessions, procs, dir, replica>>

\* del has answered
RenameDel(c) ==
  /\ pc[c] = "rename_del"
  /\ StatusThenScan(c, "renameFileStatus",
                    [success |-> TRUE, oldName |-> call[c].m.oldName,
                     newName |-> call[c].m.newName])

\* case "deleteFile": validation, then deleteFile issues redis.del(fileKey)
DeleteFile(c, m) ==
  /\ Receives(c)
  /\ IF m.environmentId = "" \/ m.fileName = ""
     THEN Throw(c, FileError) /\ UNCHANGED store
     ELSE /\ store' = Del(store, FileKey(m.environmentId, m.fileName))
          /\ Suspend(c, "delete_del", [event |-> "deleteFile", m |-> m])
  /\ UNCHANGED <<readyState, environmentId, clientsMap, sessions, procs, dir, replica>>

DeleteDel(c) ==
  /\ pc[c] = "delete_del"
  /\ StatusThenScan(c, "deleteFileStatus",
                    [success |-> TRUE, fileName |-> call[c].m.fileName])

\* fileName.lastIndexOf("."), -1 when there is none
LastIndexOf(s, ch) ==
  IF \E i \in 1..Len(s) : CharAt(s, i) = ch
  THEN (CHOOSE i \in 1..Len(s) :
          CharAt(s, i) = ch /\ \A j \in (i + 1)..Len(s) : CharAt(s, j) # ch) - 1
  ELSE 0 - 1

\* duplicateFile: the name of the copy
CopyName(fileName) ==
  IF LastIndexOf(fileName, ".") > 0
  THEN SubSeq(fileName, 1, LastIndexOf(fileName, ".")) \o "_copy"
         \o SubSeq(fileName, LastIndexOf(fileName, ".") + 1, Len(fileName))
  ELSE fileName \o "_copy"

\* case "duplicateFile": validation, then duplicateFile issues get(fileKey)
DuplicateFile(c, m) ==
  /\ Receives(c)
  /\ IF m.environmentId = "" \/ m.fileName = ""
     THEN Throw(c, FileError)
     ELSE Suspend(c, "duplicate_get",
                  [event |-> "duplicateFile", m |-> m,
                   got |-> Get(FileKey(m.environmentId, m.fileName))])
  /\ UNCHANGED <<store, readyState, environmentId, clientsMap, sessions, procs, dir, replica>>

\* get has answered: a missing file throws, else set(newKey, content) is issued
DuplicateGot(c) ==
  /\ pc[c] = "duplicate_get"
  /\ IF call[c].got = Null
     THEN Throw(c, NotFound) /\ UNCHANGED store
     ELSE /\ store' = Set(store, FileKey(call[c].m.environmentId,
                                         CopyName(call[c].m.fileName)), call[c].got.v)
          /\ Suspend(c, "duplicate_set", call[c])
  /\ UNCHANGED <<readyState, environmentId, clientsMap, sessions, procs, dir, replica>>

DuplicateSet(c) ==
  /\ pc[c] = "duplicate_set"
  /\ StatusThenScan(c, "duplicateFileStatus",
                    [success |-> TRUE, oldName |-> call[c].m.fileName,
                     newName |-> CopyName(call[c].m.fileName)])

-----------------------------------------------------------------------------
(* Spec: connections, the registry, the sessions and the dispatcher          *)

\* The store the server finds when it starts.
InitStores == {EmptyMap, [k \in {FileKey("e1", "main.py")} |-> "a"]}

Init ==
  /\ store \in InitStores
  /\ readyState = [c \in Clients |-> "NEW"]
  /\ environmentId = [c \in Clients |-> ""]
  /\ clientsMap = EmptyMap
  /\ sessions = EmptyMap
  /\ procs = <<>>
  /\ dir = EmptyMap
  /\ pc = [c \in Clients |-> "idle"]
  /\ call = [c \in Clients |-> IdleCall]
  /\ sent = <<>>
  /\ replica = ""

EnvIds == Envs \cup {""}        \* "" is a missing environmentId

\* run: the client's copy holds "b" for the one file it asks to run, and its
\* hash is that of its copy or that of a store holding "a"
GoodRunMsgs ==
  {[fileNamesIsArray |-> TRUE, fileNames |-> <<"main.py">>, environmentId |-> "e1",
    hash |-> Sha256(<<<<"main.py", text>>>>), files |-> <<<<"main.py", "b">>>>] :
     text \in {"a", "b"}}
BadRunMsgs ==
  {[m EXCEPT !.fileNamesIsArray = FALSE] : m \in GoodRunMsgs}
    \cup {[m EXCEPT !.environmentId = ""] : m \in GoodRunMsgs}
RunMsgs == GoodRunMsgs \cup BadRunMsgs

\* diffLine, renameFile, deleteFile, duplicateFile: messages a field of which is missing
GoodDiffMsg ==
  [environmentId |-> "e1", fileName |-> "main.py", lineNumberType |-> "number",
   op |-> "insert", lineNumber |-> 0, lineContent |-> <<"a">>, count |-> 0]
BadDiffMsgs ==
  {[GoodDiffMsg EXCEPT !.environmentId = ""], [GoodDiffMsg EXCEPT !.fileName = ""],
   [GoodDiffMsg EXCEPT !.lineNumberType = "undefined"], [GoodDiffMsg EXCEPT !.op = "move"]}
GoodRenameMsg == [environmentId |-> "e1", oldName |-> "main.py", newName |-> "a.py"]
BadRenameMsgs ==
  {[GoodRenameMsg EXCEPT !.environmentId = ""], [GoodRenameMsg EXCEPT !.oldName = ""],
   [GoodRenameMsg EXCEPT !.newName = ""]}
GoodFileMsg == [environmentId |-> "e1", fileName |-> "main.py"]
BadFileMsgs ==
  {[GoodFileMsg EXCEPT !.environmentId = ""], [GoodFileMsg EXCEPT !.fileName = ""]}
InputTexts == {"", "x", "x\n"}
InputMsgs ==
  {[inputIsString |-> FALSE, input |-> ""]}
    \cup {[inputIsString |-> TRUE, input |-> t] : t \in InputTexts}

Next ==
  \/ \E c \in Clients : Connect(c)
  \/ \E c \in Clients, o \in StopOutcomes : Close(c, o)
  \/ \E c \in Clients : UnknownEvent(c)
  \/ \E c \in Clients, env \in EnvIds : CursorMove(c, env)
  \/ \E c \in Clients : InputChange(c)
  \/ \E c \in Clients, o \in StopOutcomes : Stop(c, o)
  \/ \E c \in Clients, m \in InputMsgs, writeThrows \in BOOLEAN : Input(c, m, writeThrows)
  \/ \E c \in Clients, env \in EnvIds : GetFiles(c, env)
  \/ \E c \in Clients : GetFilesDone(c)
  \/ \E c \in Clients, m \in BadDiffMsgs : DiffLine(c, m)
  \/ \E c \in Clients, m \in BadRenameMsgs : RenameFile(c, m)
  \/ \E c \in Clients, m \in BadFileMsgs : DeleteFile(c, m)
  \/ \E c \in Clients, m \in BadFileMsgs : DuplicateFile(c, m)
  \/ \E c \in Clients, m \in RunMsgs, o \in StopOutcomes : Run(c, m, o)
  \/ \E c \in Clients, o \in StartOutcomes : RunResume(c, o)
  \/ \E p \in 1..MaxProcs : ProcOutput(p)
  \/ \E p \in 1..MaxProcs, code \in ExitCodes : ProcExit(p, code)

Spec == Init /\ [][Next]_vars

-----------------------------------------------------------------------------
(* Claims on the sessions and the dispatcher (Spec)                         *)

\* stopSession reached session.ptyProcess.kill(): the by-name kill did not throw.
HandleKillIssued(p) == p.status \in {"killed", "killedByName"}

LiveProcs(env) == {p \in 1..Len(procs) : procs[p].env = env /\ Live(procs[p])}

\* C1 (as claimed): in every reachable state each environment has at most one
\* pty process that has been spawned and has neither been sent a kill nor exited.
C1_AtMostOneLiveProcess == \A env \in Envs : Cardinality(LiveProcs(env)) <= 1

\* The step in which the handler of c takes a run message for env.
RunTaken(c, env) ==
  /\ pc[c] = "idle"
  /\ pc'[c] = "run_build"
  /\ call'[c].m.environmentId = env

\* C2 (as claimed): when startSession is called for an environment that has a
\* Session record, then before it suspends, and so before it spawns, the old
\* process handle is sent a kill, the record is removed and stopped with
\* reason "restarted" is broadcast to the environment.
C2_RestartStopsOldFirst ==
  [][\A c \in Clients, env \in Envs :
       RunTaken(c, env) /\ env \in DOMAIN sessions =>
         /\ HandleKillIssued(procs'[sessions[env]])
         /\ env \notin DOMAIN sessions'
         /\ Len(procs') = Len(procs)
         /\ \E i \in 1..Len(sent') :
              /\ sent'[i].event = "stopped"
              /\ sent'[i].reason = "restarted"
              /\ sent'[i].to = Receivers(clientsMap', env)]_vars

\* The step in which startSession, resumed for c, spawns a process.
Spawned(c) ==
  /\ pc[c] = "run_build"
  /\ pc'[c] = "idle"
  /\ Len(procs') = Len(procs) + 1

\* Every entry of the files object is in the directory of env.
Materialized(d, env, files) ==
  /\ env \in DOMAIN d
  /\ \A i \in 1..Len(files) :
       files[i][1] \in DOMAIN d[env] /\ d[env][files[i][1]] = files[i][2]

\* C3 (as claimed): a run whose client hash differs from the hash of the files
\* read from the store materializes clientFiles; a run whose hash is equal
\* materializes the files read from the store.
C3_MismatchRunsClientFiles ==
  [][\A c \in Clients :
       Spawned(c) =>
         LET m == call[c].m
             built == BuildFiles(m.fileNames, call[c].got)
         IN IF m.hash # Sha256(built)
            THEN Materialized(dir', m.environmentId, m.files)
            ELSE Materialized(dir', m.environmentId, built)]_vars

\* The step in which c disconnects while bound to env and registered there.
Unregistered(c, env) ==
  /\ readyState[c] = "OPEN"
  /\ readyState'[c] = "CLOSED"
  /\ environmentId[c] = env
  /\ env \in DOMAIN clientsMap
  /\ c \in clientsMap[env]

\* C4 (as claimed): unregistering the last client of an environment with a
\* session sends that session's process a kill, removes the Session record and
\* discards the client-set entry; while other clients remain, the session is
\* untouched and the entry stays, less the client.
C4_LastClientStopsSession ==
  [][\A c \in Clients, env \in Envs :
       Unregistered(c, env) =>
         IF clientsMap[env] = {c}
         THEN /\ env \notin DOMAIN clientsMap'
              /\ env \in DOMAIN sessions =>
                   /\ env \notin DOMAIN sessions'
                   /\ HandleKillIssued(procs'[sessions[env]])
         ELSE /\ env \in DOMAIN clientsMap'
              /\ clientsMap'[env] = clientsMap[env] \ {c}
              /\ sessions' = sessions
              /\ procs' = procs]_vars

IsError(msg, texts) == msg.event = "error" /\ msg.details \in texts

\* The step sends one message, an error, to one client, and changes nothing else.
OnlyAnErrorToSender ==
  /\ Len(sent') = 1
  /\ \E c \in Clients : sent'[1].to = {c} /\ readyState[c] = "OPEN" /\ pc[c] = "idle"
  /\ UNCHANGED <<store, readyState, environmentId, clientsMap, sessions, procs, dir,
                 pc, call>>

\* C9: a message whose event is not a handled one yields exactly one error
\* event, to the sender and to no other client, and leaves the store, the
\* client sets, the sessions and the sender's binding as they were.
C9_UnknownEventOnlyErrors ==
  [][(\E i \in 1..Len(sent') : IsError(sent'[i], {"Unknown event"}))
       => OnlyAnErrorToSender]_vars

\* C9 witness: the unknown-event error while the environment has a session,
\* registered clients and a stored file.
C9_Witness ==
  /\ sent = <<ErrorMsg("c1", "Unknown event")>>
  /\ "e1" \in DOMAIN sessions
  /\ "e1" \in DOMAIN clientsMap
  /\ environmentId["c1"] = "e1"
  /\ DOMAIN store # {}

ValidationErrors ==
  {"environmentId is required", DiffLineError, RunError, "Input data is required",
   "No active environment", RenameError, FileError,
   "environmentId is required for cursorMove"}

\* C10: a message of a handled event that is rejected for a missing or
\* malformed field yields an error event to the sender only and changes
\* nothing: no store write, no registration or binding, no session started or
\* stopped, no message to another client.
C10_RejectionChangesNothing ==
  [][(\E i \in 1..Len(sent') : IsError(sent'[i], ValidationErrors))
       => OnlyAnErrorToSender]_vars

\* C10 witness: a run message without fileNames is rejected while the sender is
\* bound to an environment that has a session and another client.
C10_Witness ==
  /\ sent = <<ErrorMsg("c1", RunError)>>
  /\ "e1" \in DOMAIN sessions
  /\ environmentId["c1"] = "e1"
  /\ "e1" \in DOMAIN clientsMap
  /\ clientsMap["e1"] = {"c1", "c2"}
  /\ readyState["c2"] = "OPEN"

-----------------------------------------------------------------------------
(* SpecEnvs: two environments; clients bind to one and to the other, run    *)
(* and disconnect, every request of the manager succeeding.                 *)

Envs2 == {"e1", "e2"}

RunMsgs2 ==
  {[fileNamesIsArray |-> TRUE, fileNames |-> <<"main.py">>, environmentId |-> env,
    hash |-> Sha256(<<<<"main.py", "a">>>>), files |-> <<<<"main.py", "a">>>>] :
     env \in Envs2}

InitEnvs ==
  /\ store = [k \in {FileKey("e1", "main.py")} |-> "a"]
  /\ readyState = [c \in Clients |-> "NEW"]
  /\ environmentId = [c \in Clients |-> ""]
  /\ clientsMap = EmptyMap
  /\ sessions = EmptyMap
  /\ procs = <<>>
  /\ dir = EmptyMap
  /\ pc = [c \in Clients |-> "idle"]
  /\ call = [c \in Clients |-> IdleCall]
  /\ sent = <<>>
  /\ replica = ""

NextEnvs ==
  \/ \E c \in Clients : Connect(c)
  \/ \E c \in Clients : Close(c, "ok")
  \/ \E c \in Clients, env \in Envs2 : CursorMove(c, env)
  \/ \E c \in Clients, env \in Envs2 : GetFiles(c, env)
  \/ \E c \in Clients : GetFilesDone(c)
  \/ \E c \in Clients, m \in RunMsgs2 : Run(c, m, "ok")
  \/ \E c \in Clients : RunResume(c, "ok")
  \/ \E p \in 1..MaxProcs : ProcOutput(p)
  \/ \E p \in 1..MaxProcs : ProcExit(p, 0)

SpecEnvs == InitEnvs /\ [][NextEnvs]_vars

\* A message sent through broadcastToEnvironment, and the environment it is for.
ManagerBroadcast(msg) ==
  \/ msg.event \in {"output", "exit", "stopped"}
  \/ msg.event = "files" /\ "env" \in DOMAIN msg
BroadcastEnv(msg) == IF msg.event = "stopped" THEN msg.environmentId ELSE msg.env

Members(env) == IF env \in DOMAIN clientsMap THEN clientsMap[env] ELSE {}

\* C11: a message of broadcastToEnvironment goes to every client of the
\* environment's set whose connection is open, once, and to no client whose
\* connection is not open; an environment without a set gets nothing.
C11_BroadcastSkipsClosed ==
  \A i \in 1..Len(sent) :
    ManagerBroadcast(sent[i]) =>
      sent[i].to = {d \in Members(BroadcastEnv(sent[i])) : readyState[d] = "OPEN"}

\* C11 witness: an output is broadcast to an environment whose set holds an
\* open client and a client that has disconnected.
C11_Witness ==
  /\ Len(sent) = 1
  /\ sent[1].event = "output"
  /\ sent[1].to # {}
  /\ \E d \in Members(sent[1].env) : readyState[d] = "CLOSED"

\* C12 (as claimed): a message of broadcastToEnvironment reaches every open
\* client whose bound environment is the environment of the broadcast,
\* whichever event bound it.
C12_BroadcastReachesBound ==
  \A i \in 1..Len(sent) :
    ManagerBroadcast(sent[i]) =>
      \A d \in Clients :
        readyState[d] = "OPEN" /\ environmentId[d] = BroadcastEnv(sent[i])
          => d \in sent[i].to

\* The step in which startSession, resumed for c, fails and returns false.
StartFailed(c) ==
  /\ pc[c] = "run_build"
  /\ pc'[c] = "idle"
  /\ Len(procs') = Len(procs)

\* The output and exit(1) pair of a failed start, then runStatus to the requester.
FailureReported(c, env) ==
  /\ Len(sent') = 3
  /\ sent'[1].event = "output"
  /\ sent'[2] = Exit(env, Receivers(clientsMap, env), 1)
  /\ sent'[1].to = sent'[2].to /\ sent'[1].env = env
  /\ sent'[3] = RunStatus(c, FALSE)

\* C13 (as claimed): when startSession fails after the restart check, output
\* and then exit with exitCode 1 are broadcast to the environment, the
\* requester gets runStatus with success false, and the environment has no
\* Session record when the call returns.
C13_FailedStartLeavesNoSession ==
  [][\A c \in Clients :
       StartFailed(c) =>
         /\ FailureReported(c, call[c].m.environmentId)
         /\ call[c].m.environmentId \notin DOMAIN sessions']_vars

\* C14: a stopped event of an explicit stop is the only message of its step
\* and goes to the environment; when the environment has no Session record
\* its success is false and the step changes nothing; and its success is true
\* exactly when a record existed and both kill requests were issued without
\* an exception.
C14_StopWithoutSession ==
  [][\A i \in 1..Len(sent') :
       sent'[i].event = "stopped" /\ sent'[i].reason = "" =>
         LET env == sent'[i].environmentId
         IN /\ Len(sent') = 1
            /\ sent'[i].to = Receivers(clientsMap, env)
            /\ env \notin DOMAIN sessions =>
                 /\ ~sent'[i].success
                 /\ UNCHANGED <<store, readyState, environmentId, clientsMap, sessions,
                                procs, dir, pc, call>>
            /\ sent'[i].success <=>
                 (env \in DOMAIN sessions /\ procs'[sessions[env]].status = "killed")]_vars

\* C14 witness: a client of an environment that never had a session sends
\* stop, and stopped with success false goes to the environment.
C14_Witness ==
  /\ Len(sent) = 1
  /\ sent[1].event = "stopped"
  /\ sent[1].reason = ""
  /\ ~sent[1].success
  /\ sent[1].to = {"c1", "c2"}
  /\ procs = <<>>

-----------------------------------------------------------------------------
(* SpecFiles: two clients of one environment rename, delete and duplicate   *)
(* its files, their requests interleaving at the store commands.            *)

FileNames == {"main.py", "a.py"}
RenameMsgs == [environmentId : {"e1"}, oldName : FileNames, newName : FileNames]
FileMsgs == [environmentId : {"e1"}, fileName : FileNames]

InitFiles ==
  /\ store = [k \in {FileKey("e1", "main.py")} |-> "a"]
  /\ readyState = [c \in Clients |-> "OPEN"]
  /\ environmentId = [c \in Clients |-> "e1"]
  /\ clientsMap = [e \in {"e1"} |-> Clients]
  /\ sessions = EmptyMap
  /\ procs = <<>>
  /\ dir = EmptyMap
  /\ pc = [c \in Clients |-> "idle"]
  /\ call = [c \in Clients |-> IdleCall]
  /\ sent = <<>>
  /\ replica = ""

NextFiles ==
  \/ \E c \in Clients, m \in RenameMsgs : RenameFile(c, m)
  \/ \E c \in Clients : RenameGot(c)
  \/ \E c \in Clients : RenameSet(c)
  \/ \E c \in Clients : RenameDel(c)
  \/ \E c \in Clients, m \in FileMsgs : DeleteFile(c, m)
  \/ \E c \in Clients : DeleteDel(c)
  \/ \E c \in Clients, m \in FileMsgs : DuplicateFile(c, m)
  \/ \E c \in Clients : DuplicateGot(c)
  \/ \E c \in Clients : DuplicateSet(c)
  \/ \E c \in Clients : FilesScanned(c)

SpecFiles == InitFiles /\ [][NextFiles]_vars

\* C16: a renameFile or duplicateFile whose get found no stored content ends
\* with one error event to the sender: the store is as it was, the request is
\* over (no status, no files listing follows), and no other client gets a
\* message; and the not-found error is sent by no other step.
C16_MissingFileFailsAlone ==
  [][(\A c \in Clients :
        /\ pc[c] \in {"rename_get", "duplicate_get"}
        /\ pc'[c] # pc[c]
        /\ call[c].got = Null
        => /\ sent' = <<ErrorMsg(c, NotFound)>>
           /\ pc'[c] = "idle"
           /\ store' = store)
     /\ (\A i \in 1..Len(sent') :
           IsError(sent'[i], {NotFound}) =>
             /\ Len(sent') = 1
             /\ \E d \in Clients :
                  /\ sent'[1].to = {d}
                  /\ pc[d] \in {"rename_get", "duplicate_get"}
                  /\ call[d].got = Null
             /\ UNCHANGED <<store, readyState, environmentId, clientsMap, sessions,
                            procs, dir>>)]_vars

\* C16 witness: the rename of a file that is not stored is refused while the
\* environment holds another file and a second client.
C16_Witness ==
  /\ sent = <<ErrorMsg("c1", NotFound)>>
  /\ DOMAIN store = {FileKey("e1", "main.py")}
  /\ pc["c1"] = "idle"
  /\ readyState["c2"] = "OPEN"

\* The names of the listing a files event carries.
Listed(msg) == DOMAIN msg.files

\* C17 (as claimed): after a successful renameFile, deleteFile or
\* duplicateFile the sender gets the status event with success true, and then
\* a files event goes to the environment's clients whose listing is the
\* environment's file set read after the mutation: with the new name and
\* without the old one after a rename, without the file after a delete, with
\* the original and the copy after a duplicate.
C17_ListingAfterMutation ==
  [][\A c \in Clients :
       /\ pc[c] # "files_scan" /\ pc'[c] = "files_scan" =>
            /\ Len(sent') = 1
            /\ sent'[1].event = call[c].event \o "Status"
            /\ sent'[1].data.success
            /\ sent'[1].to = {c}
       /\ pc[c] = "files_scan" /\ pc'[c] = "idle" =>
            LET m == call[c].m
            IN /\ Len(sent') = 1
               /\ sent'[1].event = "files"
               /\ sent'[1].to = Receivers(clientsMap, m.environmentId)
               /\ Listed(sent'[1]) = AllFileNames(m.environmentId)
               /\ call[c].event = "renameFile" =>
                    m.newName \in Listed(sent'[1]) /\ m.oldName \notin Listed(sent'[1])
               /\ call[c].event = "deleteFile" => m.fileName \notin Listed(sent'[1])
               /\ call[c].event = "duplicateFile" =>
                    {m.fileName, CopyName(m.fileName)} \subseteq Listed(sent'[1])]_vars

\* The open clients other than c whose bound environment is env.
Peers(c, env) ==
  {d \in Clients \ {c} : readyState[d] = "OPEN" /\ environmentId[d] = env}

\* C18 (as claimed): lineUpdated, movedCursor, inputChanged, runRan and
\* deleteCursor never go to the client that caused them, and go to exactly
\* the other open clients bound to the environment the event is about: the
\* edited file's, the cursor's, the sender's, the run's, the leaver's.
C18_OthersOfTargetEnvironment ==
  [][\A i \in 1..Len(sent') :
       /\ sent'[i].event = "runRan" =>
            \E c \in Clients :
              /\ pc[c] = "idle" /\ pc'[c] = "run_build"
              /\ sent'[i].to = Peers(c, call'[c].m.environmentId)
       /\ sent'[i].event = "movedCursor" =>
            sent'[i].to = Peers(sent'[i].id, environmentId'[sent'[i].id])
       /\ sent'[i].event = "deleteCursor" =>
            sent'[i].to = Peers(sent'[i].sessionId, environmentId[sent'[i].sessionId])
       /\ sent'[i].event = "inputChanged" =>
            \E c \in Clients : Receives(c) /\ sent'[i].to = Peers(c, environmentId[c])
       /\ sent'[i].event = "lineUpdated" =>
            \E c \in Clients :
              /\ pc[c] = "diffLine_set" /\ pc'[c] = "idle"
              /\ sent'[i].to = Peers(c, call[c].m.environmentId)]_vars

-----------------------------------------------------------------------------
(* SpecRegistry: two clients that are registered to one environment ask for *)
(* its files again, run it, send it input and disconnect.                   *)

NextRegistry ==
  \/ \E c \in Clients : GetFiles(c, "e1")
  \/ \E c \in Clients : GetFilesDone(c)
  \/ \E c \in Clients : Close(c, "ok")
  \/ \E c \in Clients, m \in GoodRunMsgs : Run(c, m, "ok")
  \/ \E c \in Clients : RunResume(c, "ok")
  \/ \E p \in 1..MaxProcs : ProcOutput(p)
  \/ \E p \in 1..MaxProcs, code \in ExitCodes : ProcExit(p, code)
  \/ \E c \in Clients, m \in InputMsgs : Input(c, m, FALSE)

SpecRegistry == InitFiles /\ [][NextRegistry]_vars

\* C19: a getFiles of a client that is in the environment's set leaves every
\* set as it was; a broadcast names each open member once, the set having
\* it once; and the unregisterClient of a disconnect leaves the client in
\* no set of its environment.
C19_RegisterIdempotent ==
  [][\A c \in Clients :
       /\ pc[c] = "idle" /\ pc'[c] = "getFiles_scan" /\ c \in Members(environmentId'[c])
            => clientsMap' = clientsMap
       /\ \A env \in Envs :
            Unregistered(c, env) =>
              /\ env \in DOMAIN clientsMap' => c \notin clientsMap'[env]
              /\ \A d \in clientsMap[env] \ {c} :
                   env \in DOMAIN clientsMap' /\ d \in clientsMap'[env]
       /\ \A i \in 1..Len(sent') :
            ManagerBroadcast(sent'[i]) /\ c \in sent'[i].to =>
              c \in Members(BroadcastEnv(sent'[i]))]_vars

\* C19 witness: a registered client has asked for the files again, and the
\* set of its environment holds it and the other client.
C19_Witness ==
  /\ pc["c1"] = "getFiles_scan"
  /\ "e1" \in DOMAIN clientsMap
  /\ clientsMap["e1"] = {"c1", "c2"}
  /\ readyState["c2"] = "OPEN"

\* The step in which the process p of the Session record of env exits
\* without having been sent a kill.
SelfExit(p, env) ==
  /\ env \in DOMAIN sessions
  /\ sessions[env] = p
  /\ procs[p].status = "running"
  /\ procs'[p].status = "exited"

\* C20: when the process of an environment's Session record exits on its own,
\* the step broadcasts one exit event with an exit code to the environment
\* and removes the record; a stop that follows finds no session and reports
\* failure, and no input is ever written to a process that has exited.
C20_SelfExitClearsSession ==
  [][/\ \A p \in 1..Len(procs), env \in Envs :
          SelfExit(p, env) =>
            /\ \E code \in ExitCodes :
                 sent' = <<Exit(env, Receivers(clientsMap, env), code)>>
            /\ env \notin DOMAIN sessions'
            /\ \A o \in StopOutcomes :
                 /\ ~StopSession(sessions', procs', env, o).success
                 /\ ~StopSession(sessions', procs', env, o).found
     /\ \A i \in 1..Len(sent') :
          sent'[i].event = "ptyWrite" => procs[sent'[i].proc].status # "exited"]_vars

\* C20 witness: the only process ever spawned has exited with code 1 while no
\* client had disconnected and no run had restarted it, so it exited as the
\* process of the Session record; the record is gone.
C20_Witness ==
  /\ Len(procs) = 1
  /\ procs[1].status = "exited"
  /\ \A c \in Clients : readyState[c] = "OPEN" /\ pc[c] = "idle"
  /\ Len(sent) = 1
  /\ sent[1] = Exit("e1", Clients, 1)
  /\ sessions = EmptyMap

-----------------------------------------------------------------------------
(* Claims on stopSession and on the life of a session (Spec)                *)

\* The step in which stopSession is called for env while env has a Session
\* record: by a stop or a restarting run (both announce "stopped"), or by the
\* disconnect of the last client of env.
StopSessionCalled(env) ==
  /\ env \in DOMAIN sessions
  /\ \/ \E i \in 1..Len(sent') :
          sent'[i].event = "stopped" /\ sent'[i].environmentId = env
     \/ \E c \in Clients : Unregistered(c, env) /\ clientsMap[env] = {c}

\* C21 (as claimed): whenever stopSession is called for an environment with a
\* Session record, the local process handle of that session is sent a kill,
\* also when issuing the by-name kill raises, and the record is gone when
\* stopSession returns.
C21_StopKillsHandleIndependently ==
  [][\A env \in Envs :
       StopSessionCalled(env) =>
         /\ HandleKillIssued(procs'[sessions[env]])
         /\ env \notin DOMAIN sessions']_vars

-----------------------------------------------------------------------------
(* SpecOverlap: two clients edit the same file; their handlers interleave   *)
(* at the awaits of get and set.                                            *)

\* Edits at the head of the file: one line "a" or "1" is inserted, or one line
\* is deleted.
OverlapMsgs ==
  {m \in EditMsgs :
     /\ m.lineNumber = 0
     /\ m.op = "insert" => m.lineContent \in {<<"a">>, <<"1">>}
     /\ m.op = "delete" => m.count = 1
     /\ m.op # "replace"}

NextOverlap ==
  \/ \E c \in Clients, m \in OverlapMsgs : DiffLine(c, m)
  \/ \E c \in Clients : DiffLineGot(c)
  \/ \E c \in Clients : DiffLineSet(c)

SpecOverlap == InitEdit /\ [][NextOverlap]_vars

\* The step in which the handler of d, its get answered, goes on to its set
\* (or throws).
Writes(d) == pc[d] = "diffLine_get" /\ pc'[d] # "diffLine_get"

\* The value d read is no longer what a read of the file returns: another
\* operation has written the file since.
Stale(d) ==
  call[d].got # Get(FileKey(call[d].m.environmentId, call[d].m.fileName))

\* The text an operation leaves when applied to the text `content`.
EditOf(m, content) == Join(ApplyEdit(m, Split(content)).lines)

\* C22 (as claimed): the later writer of two overlapping diffLine operations
\* stores its edit of the content it read and both operations broadcast their
\* updates; an operation that reads the file after the other has written it
\* stores its edit of the stored content, so both edits are present.
C22_LastWriteWinsElseBoth ==
  [][\A d \in Clients :
       /\ Writes(d) /\ Stale(d) =>
            /\ pc'[d] = "diffLine_set"
            /\ store'[FileKey(EditEnv, EditFile)] = EditOf(call[d].m, FileContentOf(call[d].got))
       /\ Writes(d) /\ ~Stale(d) =>
            /\ pc'[d] = "diffLine_set"
            /\ store'[FileKey(EditEnv, EditFile)] =
                 EditOf(call[d].m, Persisted(EditEnv, EditFile))
       /\ pc[d] = "diffLine_set" /\ pc'[d] = "idle" =>
            /\ store' = store
            /\ sent' = [i \in 1..Len(call[d].updates) |->
                          LineUpdated(Clients \ {d}, call[d].updates[i])]]_vars

-----------------------------------------------------------------------------
(* Claims on rebinding (SpecEnvs)                                           *)

\* The step in which the handler of c takes a getFiles or a run for env.
Requests(c, env) ==
  /\ pc[c] = "idle"
  /\ \/ pc'[c] = "getFiles_scan" /\ call'[c].environmentId = env
     \/ pc'[c] = "run_build" /\ call'[c].m.environmentId = env

\* The step in which the connection of c closes.
Disconnects(c) == readyState[c] = "OPEN" /\ readyState'[c] = "CLOSED"

\* C23 (as claimed): a client in the set of E1 that sends getFiles or run for
\* another environment E2 is bound to E2, added to the set of E2 and kept in
\* the set of E1; when a client bound to E2 and in the set of E1 disconnects,
\* it is taken out of the set of E2 only and stays in the set of E1.
C23_RebindKeepsOldRegistration ==
  [][\A c \in Clients, E1 \in Envs2, E2 \in Envs2 :
       /\ E1 # E2 /\ c \in Members(E1) /\ Requests(c, E2) =>
            /\ environmentId'[c] = E2
            /\ E2 \in DOMAIN clientsMap' /\ c \in clientsMap'[E2]
            /\ E1 \in DOMAIN clientsMap' /\ c \in clientsMap'[E1]
       /\ E1 # E2 /\ c \in Members(E1) /\ environmentId[c] = E2 /\ Disconnects(c) =>
            /\ E2 \in DOMAIN clientsMap' => c \notin clientsMap'[E2]
            /\ E1 \in DOMAIN clientsMap' /\ c \in clientsMap'[E1]]_vars

-----------------------------------------------------------------------------
(* Claims on the exit handler and on the observers of a session (Spec)      *)

\* The step in which the exit event of process p comes.
Exits(p) == procs[p].status # "exited" /\ procs'[p].status = "exited"

\* C24 (as claimed): the exit event of a process that is not the process of
\* its environment's Session record leaves that record in place, and every
\* process that has been sent no kill and has not exited is the process of
\* its environment's record.
C24_StaleExitKeepsRecord ==
  [][\A p \in 1..Len(procs) :
       LET env == procs[p].env
       IN /\ Exits(p) /\ env \in DOMAIN sessions /\ sessions[env] # p =>
               env \in DOMAIN sessions' /\ sessions'[env] = sessions[env]
          /\ Exits(p) /\ env \in DOMAIN sessions /\ sessions[env] # p =>
               \A q \in 1..Len(procs') :
                 Live(procs'[q]) /\ procs'[q].env = env =>
                   env \in DOMAIN sessions' /\ sessions'[env] = q]_vars

\* C25 (as claimed): in every reachable state an environment that has a
\* Session record has a client in its set whose connection is open.
C25_SessionHasObserver ==
  \A env \in DOMAIN sessions : \E c \in Members(env) : readyState[c] = "OPEN"

-----------------------------------------------------------------------------
(* Claims on renameFile (SpecFiles)                                         *)

\* The step in which the rename of c reports success.
RenameSucceeds(c) == pc[c] = "rename_del" /\ pc'[c] = "files_scan"

\* A step of the rename of c that issues a store command.
RenameCommand(c) ==
  \/ pc[c] = "rename_get" /\ pc'[c] = "rename_set"
  \/ pc[c] = "rename_set" /\ pc'[c] = "rename_del"

\* C26 (as claimed): when a renameFile reports success the store holds under
\* newName the content read from oldName and, the names differing, nothing
\* under oldName, for every pair of names; and the store commands of the
\* rename change no key other than those of oldName and newName.
C26_RenameMovesContent ==
  [][\A c \in Clients :
       /\ RenameSucceeds(c) =>
            LET m == call[c].m
            IN /\ FileKey(m.environmentId, m.newName) \in DOMAIN store
               /\ store[FileKey(m.environmentId, m.newName)] = call[c].got.v
               /\ m.oldName # m.newName =>
                    FileKey(m.environmentId, m.oldName) \notin DOMAIN store
       /\ RenameCommand(c) =>
            LET m == call[c].m
                keys == {FileKey(m.environmentId, m.oldName),
                         FileKey(m.environmentId, m.newName)}
            IN /\ DOMAIN store' \ keys = DOMAIN store \ keys
               /\ \A k \in DOMAIN store \ keys : store'[k] = store[k]]_vars

-----------------------------------------------------------------------------
(* SpecRun: two registered clients run their environment and disconnect;    *)
(* startSession may fail at any of its steps.  The reads a suspended        *)
(* startSession waits for are answered or rejected in the end, so the       *)
(* handler is resumed.                                                      *)

NextRun ==
  \/ \E c \in Clients, m \in RunMsgs, o \in StopOutcomes : Run(c, m, o)
  \/ \E c \in Clients, o \in StartOutcomes : RunResume(c, o)
  \/ \E c \in Clients, o \in StopOutcomes : Close(c, o)
  \/ \E p \in 1..MaxProcs, code \in ExitCodes : ProcExit(p, code)

SpecRun ==
  /\ InitFiles
  /\ [][NextRun]_vars
  /\ \A c \in Clients : WF_vars(\E o \in StartOutcomes : RunResume(c, o))

\* The runStatus events among the messages of a step, by their positions.
RunStatusAt(msgs) == {i \in 1..Len(msgs) : msgs[i].event = "runStatus"}

\* The step in which startSession, resumed for c, returns.
StartFinished(c) == pc[c] = "run_build" /\ pc'[c] = "idle"

\* The step spawns a process and stores it as the Session record of env.
SpawnedAndStored(env) ==
  /\ Len(procs') = Len(procs) + 1
  /\ env \in DOMAIN sessions'
  /\ sessions'[env] = Len(procs')
  /\ Live(procs'[Len(procs')])

\* C27: a run that passed validation is resumed in the end, and the step in
\* which its startSession returns sends exactly one runStatus, to the
\* requester's connection, as the last message of the step, with success true
\* exactly when the step spawned a process and stored it as the Session
\* record; no other step sends a runStatus.
C27_OneRunStatusAfterStart ==
  /\ \A c \in Clients : (pc[c] = "run_build") ~> (pc[c] = "idle")
  /\ [][/\ \A c \in Clients :
             StartFinished(c) =>
               /\ RunStatusAt(sent') = {Len(sent')}
               /\ sent'[Len(sent')].to = ToSender(c)
               /\ sent'[Len(sent')].success = SpawnedAndStored(call[c].m.environmentId)
        /\ (\A c \in Clients : ~StartFinished(c)) => RunStatusAt(sent') = {}]_vars

\* C27 witness: the requester c1 has got runStatus with success true, the
\* process spawned for it runs and is the Session record of e1.
C27_Witness ==
  /\ Len(sent) = 1
  /\ sent[1].event = "runStatus"
  /\ sent[1].to = {"c1"}
  /\ sent[1].success
  /\ "e1" \in DOMAIN sessions
  /\ Live(procs[sessions["e1"]])
  /\ pc["c1"] = "idle"

-----------------------------------------------------------------------------
(* SpecStart: startSession over stores that hold, for each of two files, no *)
(* content, the empty text, a text or a text of digits, and over run        *)
(* requests that name the files in either order.                            *)

StoredTexts == {"", "a", "0"}

\* The stores over the two files of e1: each key is missing or holds a text.
StartStores ==
  {[k \in ks |-> t[k]] :
     ks \in SUBSET {FileKey("e1", f) : f \in FileNames},
     t \in [{FileKey("e1", f) : f \in FileNames} -> StoredTexts]}

StartFileNames ==
  {<<"main.py">>, <<"a.py">>, <<"a.py", "main.py">>, <<"main.py", "a.py">>}

StartMsgs ==
  {[fileNamesIsArray |-> TRUE, fileNames |-> names, environmentId |-> "e1",
    hash |-> Sha256(<<>>), files |-> <<>>] : names \in StartFileNames}

InitStart ==
  /\ store \in StartStores
  /\ readyState = [c \in Clients |-> "OPEN"]
  /\ environmentId = [c \in Clients |-> "e1"]
  /\ clientsMap = [e \in {"e1"} |-> Clients]
  /\ sessions = EmptyMap
  /\ procs = <<>>
  /\ dir = EmptyMap
  /\ pc = [c \in Clients |-> "idle"]
  /\ call = [c \in Clients |-> IdleCall]
  /\ sent = <<>>
  /\ replica = ""

NextStart ==
  \/ \E m \in StartMsgs : Run("c1", m, "ok")
  \/ \E o \in StartOutcomes : RunResume("c1", o)
  \/ \E p \in 1..MaxProcs, code \in ExitCodes : ProcExit(p, code)

SpecStart == InitStart /\ [][NextStart]_vars

\* The store holds content for the file: its key is there with a text that is
\* not empty.
HasStoredContent(env, fileName) ==
  FileKey(env, fileName) \in DOMAIN store /\ store[FileKey(env, fileName)] # ""

\* C28 (as claimed): startSession runs main.py when main.py is among the
\* requested names, wherever it stands, else the first name; a requested file
\* with stored content is materialized with that content, main.py without
\* stored content with the built-in default body, and every other file without
\* stored content as empty.
C28_EntryFileAndDefaults ==
  [][Spawned("c1") =>
       LET m == call["c1"].m
           env == m.environmentId
           names == {m.fileNames[i] : i \in 1..Len(m.fileNames)}
       IN /\ procs'[Len(procs')].mainFile =
               (IF "main.py" \in names THEN "main.py" ELSE m.fileNames[1])
          /\ env \in DOMAIN dir'
          /\ \A f \in names :
               /\ f \in DOMAIN dir'[env]
               /\ dir'[env][f] =
                    (IF HasStoredContent(env, f) THEN store[FileKey(env, f)]
                     ELSE IF f = "main.py" THEN DefaultBody ELSE "")]_vars

=============================================================================
